---- MODULE Spec2Model ----
(***************************************************************************)
(* JSON-LD explorer (src/_site/script.js): the JSONLDExplorer controller,   *)
(* its format cache and the asynchronous derivations it issues, as a state  *)
(* machine driven by the host event loop.                                   *)
(*                                                                         *)
(* Scheduling.  The page is single threaded.  Every handler runs to its     *)
(* next await; a continuation whose promise is already resolved runs as a   *)
(* microtask, before any other event is dispatched (variable micro); the    *)
(* fetch and the jsonld.js conversion settle in later tasks (variables      *)
(* loads and pending).                                                      *)
(*                                                                         *)
(* Texts are tokens <<kind, doc>>: the kind of text and the document it was *)
(* computed from ("-" for the fixed messages).                              *)
(*                                                                         *)
(* View texts.  content[v] is the text of view v as far as it can be seen:  *)
(* the table view's markup always, the <pre> of a derived view while that   *)
(* view is shown.  The <pre> of a hidden derived view keeps its old text in *)
(* the page, but showView line 301 rewrites it before line 302 shows the    *)
(* view again, so the old text is never read: it is Blank here.             *)
(*                                                                         *)
(* Trees.  SpecTree follows one fetched tree through the normalizer and the *)
(* graph-text serializer with the tree and the text spelled out (JSON       *)
(* values as records, texts as strings); Spec and SpecHist carry documents  *)
(* by name.                                                                 *)
(***************************************************************************)
EXTENDS Integers, Sequences, FiniteSets, TLC

\* ---------------------------------------------------------------- bounds
\* Asynchronous operations (fetches and jsonld.toRDF conversions together) that
\* have been issued and have not settled yet.
MaxInFlight == 2

\* Keys of a fetched document.
MaxKeys == 2

\* ------------------------------------------------------------- vocabulary
\* Documents a fetch can deliver.  "dL" is a document with a string value
\* that contains the words "Loading" and "not loaded" (such as "Loading: not
\* loaded yet"), so every text derived from it contains them.
Docs == {"d1", "dL"}
NoDoc == "null"

Formats == {"table", "turtle", "rdfxml", "ntriples", "nquads"}
DerivedFormats == Formats \ {"table"}

Absent == <<"undefined", "-">>
Blank == <<"", "-">>
LoadingText == <<"Loading...", "-">>
FailedText == <<"Failed to load data! Check the URL and try again.", "-">>
RdfLibMissing == <<"RDFLib not loaded!", "-">>
JsonldMissing == <<"jsonld.js not loaded!", "-">>
TableHtml(d) == <<"table", d>>
ErrorText(d) == <<"Error converting: ", d>>
NoTask == [who |-> "none", fmt |-> "-", text |-> Absent]
Nothing == <<"nothing", "-">>

\* content.includes('Loading')
IncludesLoading(t) ==
    \/ t = LoadingText
    \/ t[1] \in DerivedFormats /\ t[2] = "dL"

\* data.startsWith('Error')
StartsWithError(t) == t[1] = "Error converting: "

\* data.includes('not loaded')
IncludesNotLoaded(t) ==
    \/ t \in {RdfLibMissing, JsonldMissing}
    \/ t[1] \in DerivedFormats /\ t[2] = "dL"

\* The document a text was derived from ("-": from none).
TextDoc(t) == t[2]

\* ------------------------------------------------------------ JSON values
\* A value of the tree response.json() delivers: its JavaScript type t and its
\* payload, in the field of its type (s: the string, n: the number, b: the
\* boolean, items: the elements of an array, entries: the <<key, value>>
\* entries of an object in iteration order; no key here is an integer index,
\* so that is the order of insertion).  The other fields are blank.
Value(t, s, n, b, items, entries) ==
    [t |-> t, s |-> s, n |-> n, b |-> b, items |-> items, entries |-> entries]
Str(s) == Value("string", s, 0, FALSE, <<>>, <<>>)
Num(n) == Value("number", "", n, FALSE, <<>>, <<>>)
Bool(b) == Value("boolean", "", 0, b, <<>>, <<>>)
Null == Value("null", "", 0, FALSE, <<>>, <<>>)
Undefined == Value("undefined", "", 0, FALSE, <<>>, <<>>)
Arr(a) == Value("array", "", 0, FALSE, a, <<>>)
Obj(e) == Value("object", "", 0, FALSE, <<>>, e)

\* obj[key]
Get(obj, key) ==
    IF obj.t = "object" /\ \E i \in 1..Len(obj.entries) : obj.entries[i][1] = key
    THEN obj.entries[CHOOSE i \in 1..Len(obj.entries) : obj.entries[i][1] = key][2]
    ELSE Undefined

\* Object.keys(obj)
ObjectKeys(obj) == [i \in 1..Len(obj.entries) |-> obj.entries[i][1]]

\* ToBoolean(v)
Truthy(v) ==
    CASE v.t = "string" -> v.s # ""
      [] v.t = "number" -> v.n # 0
      [] v.t = "boolean" -> v.b
      [] v.t \in {"null", "undefined"} -> FALSE
      [] OTHER -> TRUE

\* utils.isPrimitive / utils.isObject
isPrimitive(v) == v.t \in {"string", "number", "boolean"}
isObject(v) == v.t \in {"array", "object"}

\* ---------------------------------------------------------------- strings
StartsWith(s, prefix) ==
    Len(s) >= Len(prefix) /\ SubSeq(s, 1, Len(prefix)) = prefix

\* s.includes(sub)
Includes(s, sub) ==
    \E i \in 1..(Len(s) - Len(sub) + 1) : SubSeq(s, i, i + Len(sub) - 1) = sub

\* items.join(sep), the items being strings
RECURSIVE Join(_, _)
Join(items, sep) ==
    IF Len(items) = 0 THEN ""
    ELSE IF Len(items) = 1 THEN items[1]
    ELSE items[1] \o sep \o Join(Tail(items), sep)

\* s.replace(/"/g, '\\"')
RECURSIVE EscapeQuotes(_)
EscapeQuotes(s) ==
    IF s = "" THEN ""
    ELSE IF Head(s) = "\"" THEN "\\\"" \o EscapeQuotes(Tail(s))
    ELSE Head(s) \o EscapeQuotes(Tail(s))

\* The character references of the texts used here and what the HTML parser
\* makes of them (the parser knows many more).
CharacterReferences ==
    << <<"&amp;", "&">>, <<"&quot;", "\"">>, <<"&lt;", "<">>, <<"&gt;", ">">>,
       <<"&#39;", "'">> >>

\* utils.decodeHtmlEntities(str) for a string: the text is parsed as the
\* content of a <textarea> and read back, which replaces every character
\* reference by its character (a replaced character is not parsed again).
RECURSIVE DecodeText(_)
DecodeText(s) ==
    IF s = "" THEN ""
    ELSE IF \E r \in 1..Len(CharacterReferences) :
                StartsWith(s, CharacterReferences[r][1])
    THEN LET r == CHOOSE r \in 1..Len(CharacterReferences) :
                      StartsWith(s, CharacterReferences[r][1])
             ref == CharacterReferences[r]
         IN  ref[2] \o DecodeText(SubSeq(s, Len(ref[1]) + 1, Len(s)))
    ELSE Head(s) \o DecodeText(Tail(s))

\* `${v}` / String(v): the text a template literal makes of a value.
RECURSIVE ToText(_)
ToText(v) ==
    CASE v.t = "string" -> v.s
      [] v.t = "number" -> ToString(v.n)
      [] v.t = "boolean" -> (IF v.b THEN "true" ELSE "false")
      [] v.t = "null" -> "null"
      [] v.t = "undefined" -> "undefined"
      [] v.t = "array" ->
            Join([i \in 1..Len(v.items) |->
                    IF v.items[i].t \in {"null", "undefined"} THEN ""
                    ELSE ToText(v.items[i])], ",")
      [] OTHER -> "[object Object]"

\* The escapes JSON.stringify applies inside a string (of the characters used
\* here: the quote, the backslash and the newline).
RECURSIVE QuoteJSON(_)
QuoteJSON(s) ==
    IF s = "" THEN ""
    ELSE (CASE Head(s) = "\"" -> "\\\""
            [] Head(s) = "\\" -> "\\\\"
            [] Head(s) = "\n" -> "\\n"
            [] OTHER -> Head(s)) \o QuoteJSON(Tail(s))

\* JSON.stringify(v)
RECURSIVE stringify(_)
stringify(v) ==
    CASE v.t = "string" -> "\"" \o QuoteJSON(v.s) \o "\""
      [] v.t = "number" -> ToString(v.n)
      [] v.t = "boolean" -> (IF v.b THEN "true" ELSE "false")
      [] v.t = "array" ->
            "[" \o Join([i \in 1..Len(v.items) |-> stringify(v.items[i])], ",") \o "]"
      [] v.t = "object" ->
            "{" \o Join([i \in 1..Len(v.entries) |->
                           "\"" \o QuoteJSON(v.entries[i][1]) \o "\":"
                               \o stringify(v.entries[i][2])], ",") \o "}"
      [] OTHER -> "null"

\* -------------------------------------------------------- property order
\* An object lists its properties with the array-index keys first, in
\* ascending numeric order, and then the other string keys in the order they
\* were created (the order Object.entries, Object.keys and the spread follow).
Digits == "0123456789"

IsDigit(c) == \E i \in 1..Len(Digits) : SubSeq(Digits, i, i) = c

DigitValue(c) == (CHOOSE i \in 1..Len(Digits) : SubSeq(Digits, i, i) = c) - 1

\* A canonical numeric string (the keys used here stay far below 2^32 - 1).
IsArrayIndex(key) ==
    /\ Len(key) > 0
    /\ \A i \in 1..Len(key) : IsDigit(SubSeq(key, i, i))
    /\ (Len(key) = 1 \/ SubSeq(key, 1, 1) # "0")

RECURSIVE IndexValue(_)
IndexValue(key) ==
    IF key = "" THEN 0
    ELSE 10 * IndexValue(SubSeq(key, 1, Len(key) - 1))
            + DigitValue(SubSeq(key, Len(key), Len(key)))

\* The entries whose key is an array index (indexed = TRUE) or is not.
RECURSIVE SelectEntries(_, _)
SelectEntries(entries, indexed) ==
    IF Len(entries) = 0 THEN <<>>
    ELSE IF IsArrayIndex(Head(entries)[1]) = indexed
    THEN <<Head(entries)>> \o SelectEntries(Tail(entries), indexed)
    ELSE SelectEntries(Tail(entries), indexed)

RECURSIVE AscendingIndex(_)
AscendingIndex(entries) ==
    IF Len(entries) = 0 THEN <<>>
    ELSE LET m == CHOOSE i \in 1..Len(entries) :
                      \A j \in 1..Len(entries) :
                          IndexValue(entries[i][1]) <= IndexValue(entries[j][1])
         IN  <<entries[m]>>
                 \o AscendingIndex(SubSeq(entries, 1, m - 1)
                                       \o SubSeq(entries, m + 1, Len(entries)))

\* The object that results from creating these properties in this order.
ObjectOf(entries) ==
    Obj(AscendingIndex(SelectEntries(entries, TRUE))
            \o SelectEntries(entries, FALSE))

\* ------------------------------------------------------------- normalizer
\* An isJSONLD that looks at @context only.
isJSONLDByContext(obj) == Truthy(Get(obj, "@context"))

\* utils.isJSONLD(obj): obj?.['@context'] || obj?.['@type'], as a condition.
isJSONLD(obj) == Truthy(Get(obj, "@context")) \/ Truthy(Get(obj, "@type"))

\* entries.filter(keep)
RECURSIVE FilterEntries(_, _)
FilterEntries(entries, dropped) ==
    IF Len(entries) = 0 THEN <<>>
    ELSE IF Head(entries)[1] \in dropped
    THEN FilterEntries(Tail(entries), dropped)
    ELSE <<Head(entries)>> \o FilterEntries(Tail(entries), dropped)

\* A wrapGenericData that sets no @type marker.
wrapGenericDataUntyped(d) ==
    ObjectOf(<< <<"@context", Obj(<< <<"schema", Str("https://schema.org/")>> >>)>> >>
                 \o FilterEntries(d.entries, {"@context", "@type"}))

\* A wrapGenericData that spreads the whole of the raw data after the two
\* markers, as genericLinkedData of the earlier build did: a marker key of the
\* raw data keeps the marker's place and takes the raw value.
wrapGenericDataSpreading(d) ==
    ObjectOf(<< <<"@context", IF Get(d, "@context").t = "undefined"
                              THEN Obj(<< <<"schema", Str("https://schema.org/")>> >>)
                              ELSE Get(d, "@context")>>,
                <<"@type", IF Get(d, "@type").t = "undefined"
                           THEN Str("Resource") ELSE Get(d, "@type")>> >>
                 \o FilterEntries(d.entries, {"@context", "@type"}))

\* wrapGenericData(data)
wrapGenericData(d) ==
    ObjectOf(<< <<"@context", Obj(<< <<"schema", Str("https://schema.org/")>> >>)>>,
                <<"@type", Str("Resource")>> >>
                 \o FilterEntries(d.entries, {"@context", "@type"}))

\* loadData: utils.isJSONLD(data) ? data : this.wrapGenericData(data)
normalize(raw) == IF isJSONLD(raw) THEN raw ELSE wrapGenericData(raw)

\* ------------------------------------------------------------- serializer
\* RDFConverter.prefixes, declared one per line and followed by a blank line.
prefixes ==
    << <<"schema", "https://schema.org/">>,
       <<"csvw", "https://www.w3.org/ns/csvw#">>,
       <<"foaf", "http://xmlns.com/foaf/0.1/">>,
       <<"dcat", "http://www.w3.org/ns/dcat#">>,
       <<"sh", "http://www.w3.org/ns/shacl#">>,
       <<"rdf", "http://www.w3.org/1999/02/22-rdf-syntax-ns#">>,
       <<"rdfs", "http://www.w3.org/2000/01/rdf-schema#">> >>

PrefixLines ==
    Join([i \in 1..Len(prefixes) |->
            "@prefix " \o prefixes[i][1] \o ": <" \o prefixes[i][2] \o "> ."],
         "\n") \o "\n\n"

\* key.includes(':') ? key : `schema:${key}`
Predicate(key) == IF Includes(key, ":") THEN key ELSE "schema:" \o key

\* The string branch of formatValue.
FormatString(s) ==
    LET decoded == DecodeText(s)
    IN  IF StartsWith(decoded, "http://") \/ StartsWith(decoded, "https://")
        THEN "<" \o decoded \o ">"
        ELSE "\"" \o EscapeQuotes(decoded) \o "\""

RECURSIVE formatValue(_, _)

\* A formatValue that formats the elements of a sequence at the indentation
\* of the sequence.
formatValueFlat(value, indent) ==
    CASE value.t = "string" -> FormatString(value.s)
      [] value.t \in {"number", "boolean"} -> ToText(value)
      [] value.t = "array" ->
            IF Len(value.items) = 0 THEN "()"
            ELSE LET items == [i \in 1..Len(value.items) |->
                                 formatValue(value.items[i], indent)]
                 IN  IF \A i \in 1..Len(value.items) : ~isObject(value.items[i])
                     THEN "(\n" \o indent \o "  " \o Join(items, " ")
                              \o "\n" \o indent \o ")"
                     ELSE Join(items, " ,\n" \o indent)
      [] value.t = "object" ->
            IF Truthy(Get(value, "@type"))
            THEN LET kept == FilterEntries(value.entries, {"@type"})
                     props == [i \in 1..Len(kept) |->
                                 indent \o "  " \o Predicate(kept[i][1]) \o " "
                                     \o formatValue(kept[i][2], indent \o "  ")]
                 IN  "[\n" \o indent \o "  a schema:"
                         \o ToText(Get(value, "@type")) \o " ;\n"
                         \o Join(props, " ;\n") \o "\n" \o indent \o "]"
            ELSE "\"" \o EscapeQuotes(DecodeText(stringify(value))) \o "\""
      [] OTHER -> "\"\""

\* RDFConverter.formatValue(value, indent)
formatValue(value, indent) ==
    CASE value.t = "string" -> FormatString(value.s)
      [] value.t \in {"number", "boolean"} -> ToText(value)
      [] value.t = "array" ->
            IF Len(value.items) = 0 THEN "()"
            ELSE LET items == [i \in 1..Len(value.items) |->
                                 formatValue(value.items[i], indent \o "  ")]
                 IN  IF \A i \in 1..Len(value.items) : ~isObject(value.items[i])
                     THEN "(\n" \o indent \o "  " \o Join(items, " ")
                              \o "\n" \o indent \o ")"
                     ELSE Join(items, " ,\n" \o indent)
      [] value.t = "object" ->
            IF Truthy(Get(value, "@type"))
            THEN LET kept == FilterEntries(value.entries, {"@type"})
                     props == [i \in 1..Len(kept) |->
                                 indent \o "  " \o Predicate(kept[i][1]) \o " "
                                     \o formatValue(kept[i][2], indent \o "  ")]
                 IN  "[\n" \o indent \o "  a schema:"
                         \o ToText(Get(value, "@type")) \o " ;\n"
                         \o Join(props, " ;\n") \o "\n" \o indent \o "]"
            ELSE "\"" \o EscapeQuotes(DecodeText(stringify(value))) \o "\""
      [] OTHER -> "\"\""

\* A toTurtle that names the @type of the document whenever the key is there.
toTurtleNamingAnyType(d) ==
    LET type == IF Get(d, "@type").t # "undefined" THEN ToText(Get(d, "@type"))
                ELSE "Resource"
        kept == FilterEntries(d.entries, {"@context", "@type"})
        props == [i \in 1..Len(kept) |->
                    "  " \o Predicate(kept[i][1]) \o " "
                        \o formatValue(kept[i][2], "  ")]
    IN  PrefixLines \o "<> a schema:" \o type \o " ;\n"
            \o Join(props, " ;\n") \o " .\n"

\* A toTurtle that separates the property lines with ' ,'.
toTurtleCommaJoined(d) ==
    LET type == IF Truthy(Get(d, "@type")) THEN ToText(Get(d, "@type"))
                ELSE "Resource"
        kept == FilterEntries(d.entries, {"@context", "@type"})
        props == [i \in 1..Len(kept) |->
                    "  " \o Predicate(kept[i][1]) \o " "
                        \o formatValue(kept[i][2], "  ")]
    IN  PrefixLines \o "<> a schema:" \o type \o " ;\n"
            \o Join(props, " ,\n") \o " .\n"

\* RDFConverter.toTurtle(data)
toTurtle(d) ==
    LET type == IF Truthy(Get(d, "@type")) THEN ToText(Get(d, "@type"))
                ELSE "Resource"
        kept == FilterEntries(d.entries, {"@context", "@type"})
        props == [i \in 1..Len(kept) |->
                    "  " \o Predicate(kept[i][1]) \o " "
                        \o formatValue(kept[i][2], "  ")]
    IN  PrefixLines \o "<> a schema:" \o type \o " ;\n"
            \o Join(props, " ;\n") \o " .\n"

\* --------------------------------------------------------------- renderer
\* /^https?:\/\/[^\s]+$/.test(str)
IsLink(str) ==
    \E scheme \in {"http://", "https://"} :
        /\ StartsWith(str, scheme)
        /\ Len(str) > Len(scheme)
        /\ \A i \in (Len(scheme) + 1)..Len(str) :
              SubSeq(str, i, i) \notin {" ", "\n", "\t", "\r"}

\* utils.linkify(v), as the text a template literal makes of it.
linkify(v) ==
    IF v.t = "string" /\ IsLink(v.s)
    THEN "<a href=\"" \o v.s \o "\" target=\"_blank\" rel=\"noopener\">" \o v.s \o "</a>"
    ELSE ToText(v)

\* Object.keys(v) of an object or an array.
OwnKeys(v) ==
    IF v.t = "array" THEN [i \in 1..Len(v.items) |-> ToString(i - 1)]
    ELSE [i \in 1..Len(v.entries) |-> v.entries[i][1]]

\* v[key] of an object or an array.
Property(v, key) ==
    IF v.t = "array"
    THEN IF IsArrayIndex(key) /\ IndexValue(key) < Len(v.items)
         THEN v.items[IndexValue(key) + 1] ELSE Undefined
    ELSE Get(v, key)

\* [...new Set(keys)]: the keys without repetition, in first-seen order.
RECURSIVE Unique(_)
Unique(keys) ==
    IF Len(keys) = 0 THEN <<>>
    ELSE LET before == Unique(SubSeq(keys, 1, Len(keys) - 1))
             last == keys[Len(keys)]
         IN  IF \E i \in 1..Len(before) : before[i] = last
             THEN before ELSE Append(before, last)

\* values.flatMap(Object.keys)
RECURSIVE FlatKeys(_)
FlatKeys(values) ==
    IF Len(values) = 0 THEN <<>>
    ELSE OwnKeys(Head(values)) \o FlatKeys(Tail(values))

\* JSON.stringify(v, null, 2), indent being the indentation reached.
RECURSIVE stringifyPretty(_, _)
stringifyPretty(v, indent) ==
    CASE v.t = "array" ->
            IF Len(v.items) = 0 THEN "[]"
            ELSE "[\n" \o indent \o "  "
                     \o Join([i \in 1..Len(v.items) |->
                                 stringifyPretty(v.items[i], indent \o "  ")],
                             ",\n" \o indent \o "  ")
                     \o "\n" \o indent \o "]"
      [] v.t = "object" ->
            IF Len(v.entries) = 0 THEN "{}"
            ELSE "{\n" \o indent \o "  "
                     \o Join([i \in 1..Len(v.entries) |->
                                 "\"" \o QuoteJSON(v.entries[i][1]) \o "\": "
                                     \o stringifyPretty(v.entries[i][2], indent \o "  ")],
                             ",\n" \o indent \o "  ")
                     \o "\n" \o indent \o "}"
      [] OTHER -> stringify(v)

\* DataRenderer.renderValue(val)
RECURSIVE renderValue(_)
renderValue(val) ==
    CASE isPrimitive(val) -> linkify(Str(DecodeText(ToText(val))))
      [] val.t = "array" ->
            IF Len(val.items) = 0 THEN "<i>(empty)</i>"
            ELSE IF \A i \in 1..Len(val.items) : isPrimitive(val.items[i])
            THEN "<ul>" \o Join([i \in 1..Len(val.items) |->
                                    "<li>" \o linkify(val.items[i]) \o "</li>"], "")
                     \o "</ul>"
            ELSE IF \A i \in 1..Len(val.items) : isObject(val.items[i])
            THEN LET keys == Unique(FlatKeys(val.items))
                     row(obj) ==
                         "<tr>" \o Join([k \in 1..Len(keys) |->
                                           "<td>" \o renderValue(Property(obj, keys[k]))
                                               \o "</td>"], "")
                             \o "</tr>"
                 IN  "<table class=\"json-sub-table\"><thead><tr>"
                         \o Join([k \in 1..Len(keys) |-> "<th>" \o keys[k] \o "</th>"], "")
                         \o "</tr></thead><tbody>"
                         \o Join([i \in 1..Len(val.items) |-> row(val.items[i])], "")
                         \o "</tbody></table>"
            ELSE "<pre>" \o DecodeText(stringifyPretty(val, "")) \o "</pre>"
      [] val.t = "object" ->
            "<table class=\"json-sub-table\"><tbody>"
                \o Join([i \in 1..Len(val.entries) |->
                            "<tr><td><b>" \o val.entries[i][1] \o "</b></td><td>"
                                \o renderValue(val.entries[i][2]) \o "</td></tr>"], "")
                \o "</tbody></table>"
      [] OTHER -> ""

\* renderTable(data): the markup given to the table view.
renderTable(d) ==
    "<table><thead><tr><th>Key</th><th>Value</th></tr></thead><tbody>"
        \o Join([i \in 1..Len(d.entries) |->
                    "<tr><td>" \o d.entries[i][1] \o "</td><td>"
                        \o renderValue(d.entries[i][2]) \o "</td></tr>"], "")
        \o "</tbody></table>"

VARIABLES
    rdfLoaded,        \* window.$rdf is defined
    jsonldLoaded,     \* window.jsonld is defined
    data,             \* this.data
    currentFormat,    \* this.currentFormat
    cache,            \* this.cache
    display,          \* elements.views[v].style.display
    content,          \* what each view holds (table innerHTML / pre.textContent)
    loadDisabled,     \* buttons.load.disabled
    downloadDisplay,  \* buttons.download.style.display
    toggleDisabled,   \* buttons.toggle<Format>.disabled
    loads,            \* loadData calls awaiting fetch(url) / response.json()
    pending,          \* RDFConverter.toNQuads calls awaiting jsonld.toRDF
    micro,            \* the continuation queued as a microtask, if any
    track,            \* history: load requests record the state they found
    discarded,        \* history: the graph text the last successful load dropped
    loadedOnce,       \* history: some load has succeeded
    turtleSinceLoad,  \* history: showView('turtle') ran since the last successful load
    ev,               \* history: the handler that ran last and what it did
    fetched,          \* the tree response.json() delivered (loadData's `data`)
    document,         \* this.data, as a tree
    graphText,        \* RDFConverter.toTurtle(this.data), as a string
    tableMarkup,      \* the markup renderTable gives the table view, as a string
    step              \* how far the tree has come: fetched, normalized, serialized

vars == <<rdfLoaded, jsonldLoaded, data, currentFormat, cache, display, content,
          loadDisabled, downloadDisplay, toggleDisabled, loads, pending, micro,
          track, discarded, loadedOnce, turtleSinceLoad, ev,
          fetched, document, graphText, tableMarkup, step>>

\* The controller's variables, and the tree's.
controller == <<rdfLoaded, jsonldLoaded, data, currentFormat, cache, display,
                content, loadDisabled, downloadDisplay, toggleDisabled, loads,
                pending, micro, track, discarded, loadedOnce, turtleSinceLoad, ev>>
tree == <<fetched, document, graphText, tableMarkup, step>>

\* What no handler of the controller changes.
env == <<rdfLoaded, jsonldLoaded, track, tree>>

\* The controller's specifications carry documents by name, not as trees.
NoTree ==
    /\ fetched = Undefined
    /\ document = Undefined
    /\ graphText = ""
    /\ tableMarkup = ""
    /\ step = "off"

EmptyCache == [f \in DerivedFormats |-> Absent]
AllHidden == [v \in Formats |-> "none"]

\* A loadData call in flight: its url and, when track is set, the document and
\* the cache it found when it was requested and the document of the last load
\* that was requested after it and has succeeded before it.
Request(url) ==
    [url |-> url,
     data0 |-> IF track THEN data ELSE NoDoc,
     cache0 |-> IF track THEN cache ELSE EmptyCache,
     overtakenBy |-> NoDoc]
NoRequest == [url |-> "-", data0 |-> NoDoc, cache0 |-> EmptyCache, overtakenBy |-> NoDoc]

\* The loads left in flight when loads[i] has succeeded: the ones requested
\* before it have been overtaken (history, kept when track is set).
Overtake(i) ==
    [k \in 1..(Len(loads) - 1) |->
        IF k < i /\ track THEN [loads[k] EXCEPT !.overtakenBy = loads[i].url]
        ELSE IF k < i THEN loads[k] ELSE loads[k + 1]]

\* op: the handler; fmt: its format; who: the caller a settled conversion resumes;
\* hit: the cache held a text for fmt on entry; derived: the last derivation the
\* handler invoked; req: the load request the handler completed.
Ev(op, fmt, who, hit, derived) ==
    [op |-> op, fmt |-> fmt, who |-> who, hit |-> hit, derived |-> derived,
     req |-> NoRequest]

\* The view texts once every view is hidden.
Hide(c) == [v \in Formats |-> IF v = "table" THEN c[v] ELSE Blank]

\* ------------------------------------------------------------ constructor
Init ==
    /\ rdfLoaded \in BOOLEAN
    /\ jsonldLoaded \in BOOLEAN
    /\ data = NoDoc
    /\ currentFormat = "table"
    /\ cache = EmptyCache
    /\ display = [v \in Formats |-> ""]
    /\ content = [v \in Formats |-> Blank]
    /\ loadDisabled = FALSE
    /\ downloadDisplay = ""
    /\ \E d \in BOOLEAN : toggleDisabled = [f \in DerivedFormats |-> d]
    /\ loads = <<>>
    /\ track = FALSE
    /\ pending = <<>>
    /\ micro = NoTask
    /\ discarded = Absent
    /\ loadedOnce = FALSE
    /\ turtleSinceLoad = FALSE
    /\ ev = Ev("init", "-", "-", FALSE, "none")
    /\ NoTree

\* ------------------------------------------------------------ derivations
\* RDFConverter.toTurtle(data), as a token: the graph text of document d.
TurtleText(d) == <<"turtle", d>>

\* RDFConverter.toRDF(format, turtle): the texts the call can return (the
\* external parser/serializer either returns text or throws).
toRDF(format, d) ==
    IF ~rdfLoaded THEN {RdfLibMissing} ELSE {<<format, d>>, ErrorText(d)}

\* RDFConverter.toNQuads(data): the texts the promise can resolve to.
toNQuads(d) ==
    IF ~jsonldLoaded THEN {JsonldMissing} ELSE {<<"nquads", d>>, ErrorText(d)}

\* generateContent(format): the texts its promise can resolve to.
generateContent(format, d) ==
    CASE format = "turtle" -> {TurtleText(d)}
      [] format \in {"rdfxml", "ntriples"} -> toRDF(format, d)
      [] format = "nquads" -> toNQuads(d)
      [] OTHER -> {Blank}

\* The last derivation generateContent(format) invokes.
Derivation(format) ==
    CASE format = "turtle" -> "toTurtle"
      [] format \in {"rdfxml", "ntriples"} -> "toRDF"
      [] format = "nquads" -> "toNQuads"
      [] OTHER -> "none"

\* A toNQuads(this.data) call awaiting jsonld.toRDF: the handler that awaits it,
\* the document it was given and (history) whether a load has replaced the
\* document since.
Conversion(who) == [who |-> who, doc |-> data, stale |-> FALSE]

\* The conversions in flight settle in any order, so the order they are kept
\* in carries no information: they are kept ordered by handler, document and
\* staleness.
Rank(p) ==
    (IF p.who = "showView" THEN 0 ELSE 4) + (IF p.doc = "d1" THEN 0 ELSE 2)
        + (IF p.stale THEN 1 ELSE 0)

Issue(pend, p) ==
    LET k == Cardinality({n \in 1..Len(pend) : Rank(pend[n]) <= Rank(p)})
    IN  SubSeq(pend, 1, k) \o <<p>> \o SubSeq(pend, k + 1, Len(pend))

Remove(seq, i) == SubSeq(seq, 1, i - 1) \o SubSeq(seq, i + 1, Len(seq))

\* ------------------------------------------------------------- rendering
\* handleAsyncNQuads(pre), up to its await: the placeholder is written and
\* toNQuads(this.data) is called again.
handleAsyncNQuads(pend, base) ==
    /\ content' = [base EXCEPT !["nquads"] = LoadingText]
    /\ IF jsonldLoaded
       THEN /\ pending' = Issue(pend, Conversion("handleAsyncNQuads"))
            /\ micro' = NoTask
       ELSE /\ pending' = pend
            /\ micro' = [who |-> "handleAsyncNQuads", fmt |-> "nquads",
                         text |-> JsonldMissing]

\* renderContent(view, content, format), with this.cache = cacheNow; base is
\* the view texts before the call.
renderContent(format, c, cacheNow, pend, base) ==
    IF format = "nquads" /\ c = cacheNow["nquads"] /\ IncludesLoading(c)
    THEN handleAsyncNQuads(pend, base)
    ELSE /\ content' = [base EXCEPT ![format] = c]
         /\ pending' = pend
         /\ micro' = NoTask

\* A showView that drops the other formats' entries when the text is an error.
ResumeShowViewClearing(format, c, pend) ==
    /\ cache' = IF StartsWithError(c)
                THEN [EmptyCache EXCEPT ![format] = c]
                ELSE [cache EXCEPT ![format] = c]
    /\ renderContent(format, c, cache', pend, content)
    /\ display' = [display EXCEPT ![format] = "block"]

\* showView after `await this.generateContent(format)` resolved to c.
ResumeShowView(format, c, pend) ==
    /\ cache' = [cache EXCEPT ![format] = c]
    /\ renderContent(format, c, cache', pend, content)
    /\ display' = [display EXCEPT ![format] = "block"]

\* handleAsyncNQuads after `await RDFConverter.toNQuads(this.data)` resolved to n.
ResumeHandleAsyncNQuads(n, pend) ==
    /\ cache' = [cache EXCEPT !["nquads"] = n]
    /\ content' = IF currentFormat = "nquads" /\ display["nquads"] = "block"
                  THEN [content EXCEPT !["nquads"] = n]
                  ELSE content
    /\ pending' = pend
    /\ micro' = NoTask
    /\ display' = display

\* ------------------------------------------------------------- showView
\* showView(format) past its guard, up to its first await (or to its end when
\* it has none).
ShowViewReady(format) ==
    /\ currentFormat' = format
    /\ downloadDisplay' = IF format = "table" THEN "none" ELSE "inline-block"
    /\ turtleSinceLoad' = (turtleSinceLoad \/ format = "turtle")
    /\ IF format = "table"
       THEN /\ display' = [AllHidden EXCEPT !["table"] = "block"]
            /\ content' = Hide(content)
            /\ UNCHANGED <<cache, pending, micro>>
            /\ ev' = Ev("showView", format, "-", FALSE, "none")
       ELSE IF cache[format] # Absent
       THEN /\ cache' = cache
            /\ renderContent(format, cache[format], cache, pending, Hide(content))
            /\ display' = [AllHidden EXCEPT ![format] = "block"]
            /\ ev' = Ev("showView", format, "-", TRUE,
                        IF pending' # pending \/ micro' # NoTask
                        THEN "toNQuads" ELSE "none")
       ELSE /\ display' = AllHidden
            /\ content' = Hide(content)
            /\ cache' = cache
            /\ IF format = "nquads" /\ jsonldLoaded
               THEN /\ pending' = Issue(pending, Conversion("showView"))
                    /\ micro' = NoTask
               ELSE /\ pending' = pending
                    /\ \E c \in generateContent(format, data) :
                          micro' = [who |-> "showView", fmt |-> format, text |-> c]
            /\ ev' = Ev("showView", format, "-", FALSE, Derivation(format))

\* showView without its `if (!this.data) return;`.
ShowViewUnguarded(format) ==
    /\ micro = NoTask
    /\ ShowViewReady(format)
    /\ Len(pending') + Len(loads) <= MaxInFlight
    /\ UNCHANGED <<env, data, loadDisabled, toggleDisabled, loads, discarded,
                   loadedOnce>>

\* showView(format): `if (!this.data) return;`, then the rest.
ShowView(format) ==
    /\ micro = NoTask
    /\ IF data = NoDoc
       THEN /\ ev' = Ev("showView", format, "-", FALSE, "none")
            /\ UNCHANGED <<currentFormat, cache, display, content, downloadDisplay,
                           pending, micro, turtleSinceLoad>>
       ELSE ShowViewReady(format)
    /\ Len(pending') + Len(loads) <= MaxInFlight
    /\ UNCHANGED <<env, data, loadDisabled, toggleDisabled, loads, discarded,
                   loadedOnce>>

\* The queued continuation runs (before any other event is dispatched).
MicroStep ==
    /\ micro # NoTask
    /\ IF micro.who = "showView"
       THEN ResumeShowView(micro.fmt, micro.text, pending)
       ELSE ResumeHandleAsyncNQuads(micro.text, pending)
    /\ ev' = Ev("resume", micro.fmt, micro.who, FALSE, "none")
    /\ Len(pending') + Len(loads) <= MaxInFlight
    /\ UNCHANGED <<env, data, currentFormat, loadDisabled, downloadDisplay,
                   toggleDisabled, loads, discarded, loadedOnce, turtleSinceLoad>>

\* jsonld.toRDF of pending[i] returns or raises; the awaiting handler resumes.
NQuadsSettle(i) ==
    /\ micro = NoTask
    /\ i \in 1..Len(pending)
    /\ \E n \in toNQuads(pending[i].doc) :
          IF pending[i].who = "showView"
          THEN ResumeShowView("nquads", n, Remove(pending, i))
          ELSE ResumeHandleAsyncNQuads(n, Remove(pending, i))
    /\ ev' = Ev("settle", "nquads", pending[i].who, FALSE, "none")
    /\ Len(pending') + Len(loads) <= MaxInFlight
    /\ UNCHANGED <<env, data, currentFormat, loadDisabled, downloadDisplay,
                   toggleDisabled, loads, discarded, loadedOnce, turtleSinceLoad>>

\* ------------------------------------------------------------- loadData
\* setLoadingState(true): the load control is disabled, the download control
\* and every view are hidden, the table view holds the placeholder.
setLoadingState ==
    /\ loadDisabled' = TRUE
    /\ downloadDisplay' = "none"
    /\ content' = [Hide(content) EXCEPT !["table"] = LoadingText]
    /\ display' = AllHidden

\* An updateButtonStates that enables every toggle.
updateButtonStatesEnabling ==
    toggleDisabled' = [f \in DerivedFormats |-> FALSE]

\* updateButtonStates()
updateButtonStates ==
    toggleDisabled' = [f \in DerivedFormats |->
                          CASE f = "turtle" -> FALSE
                            [] f \in {"rdfxml", "ntriples"} -> ~rdfLoaded
                            [] OTHER -> ~jsonldLoaded]

\* loadData that drops the document and the cache as soon as it is called.
LoadRequestDiscarding(url) ==
    /\ micro = NoTask
    /\ Len(loads) + Len(pending) < MaxInFlight
    /\ setLoadingState
    /\ data' = NoDoc
    /\ cache' = EmptyCache
    /\ loads' = Append(loads, Request(url))
    /\ ev' = Ev("loadRequest", "-", "-", FALSE, "none")
    /\ UNCHANGED <<env, currentFormat, toggleDisabled, pending, micro,
                   discarded, loadedOnce, turtleSinceLoad>>

\* loadData(url), up to `await fetch(url)`.  The request remembers the document
\* and the cache it found (history, read by no handler).
LoadRequest(url) ==
    /\ micro = NoTask
    /\ Len(loads) + Len(pending) < MaxInFlight
    /\ setLoadingState
    /\ loads' = Append(loads, Request(url))
    /\ ev' = Ev("loadRequest", "-", "-", FALSE, "none")
    /\ UNCHANGED <<env, data, currentFormat, cache, toggleDisabled, pending, micro,
                   discarded, loadedOnce, turtleSinceLoad>>

\* The try block without `this.cache = {}`.
LoadSuccessKeepingCache(i) ==
    /\ micro = NoTask
    /\ i \in 1..Len(loads)
    /\ data' = loads[i].url
    /\ cache' = cache
    /\ content' = [Hide(content) EXCEPT !["table"] = TableHtml(loads[i].url)]
    /\ display' = [AllHidden EXCEPT !["table"] = "block"]
    /\ currentFormat' = "table"
    /\ updateButtonStates
    /\ loadDisabled' = FALSE
    /\ downloadDisplay' = "none"
    /\ loads' = Overtake(i)
    /\ loadedOnce' = TRUE
    /\ turtleSinceLoad' = FALSE
    /\ ev' = [Ev("loadSuccess", "-", "-", FALSE, "none") EXCEPT !.req = loads[i]]
    /\ pending' = [k \in 1..Len(pending) |-> [pending[k] EXCEPT !.stale = TRUE]]
    /\ discarded' = IF track THEN cache["turtle"] ELSE Absent
    /\ UNCHANGED <<env, micro>>

\* loadData after fetch and response.json() succeeded: the try block.  The
\* document fetched from url is the document of that name; renderTable ends
\* with showView('table'), which returns without awaiting.
LoadSuccess(i) ==
    /\ micro = NoTask
    /\ i \in 1..Len(loads)
    /\ data' = loads[i].url
    /\ cache' = EmptyCache
    /\ content' = [Hide(content) EXCEPT !["table"] = TableHtml(loads[i].url)]
    /\ display' = [AllHidden EXCEPT !["table"] = "block"]
    /\ currentFormat' = "table"
    /\ updateButtonStates
    /\ loadDisabled' = FALSE
    /\ downloadDisplay' = "none"
    /\ loads' = Overtake(i)
    /\ loadedOnce' = TRUE
    /\ turtleSinceLoad' = FALSE
    /\ ev' = [Ev("loadSuccess", "-", "-", FALSE, "none") EXCEPT !.req = loads[i]]
    /\ pending' = [k \in 1..Len(pending) |-> [pending[k] EXCEPT !.stale = TRUE]]
    /\ discarded' = IF track THEN cache["turtle"] ELSE Absent
    /\ UNCHANGED <<env, micro>>

\* A catch block that drops the document and the cache.
LoadFailureDiscarding(i) ==
    /\ micro = NoTask
    /\ i \in 1..Len(loads)
    /\ content' = [content EXCEPT !["table"] = FailedText]
    /\ loadDisabled' = FALSE
    /\ downloadDisplay' = "none"
    /\ data' = NoDoc
    /\ cache' = EmptyCache
    /\ loads' = Remove(loads, i)
    /\ ev' = [Ev("loadFailure", "-", "-", FALSE, "none") EXCEPT !.req = loads[i]]
    /\ UNCHANGED <<env, currentFormat, display, toggleDisabled,
                   pending, micro, discarded, loadedOnce, turtleSinceLoad>>

\* loadData after fetch or response.json() failed: the catch block.
LoadFailure(i) ==
    /\ micro = NoTask
    /\ i \in 1..Len(loads)
    /\ content' = [content EXCEPT !["table"] = FailedText]
    /\ loadDisabled' = FALSE
    /\ downloadDisplay' = "none"
    /\ loads' = Remove(loads, i)
    /\ ev' = [Ev("loadFailure", "-", "-", FALSE, "none") EXCEPT !.req = loads[i]]
    /\ UNCHANGED <<env, data, currentFormat, cache, display, toggleDisabled,
                   pending, micro, discarded, loadedOnce, turtleSinceLoad>>

\* ------------------------------------------------------------- download
\* download() without its `data.startsWith('Error')` test.
ExportedWithErrors ==
    LET d == IF currentFormat = "table" THEN Absent ELSE cache[currentFormat]
    IN  IF d = Absent \/ IncludesNotLoaded(d)
        THEN Nothing
        ELSE d

\* The text download() hands to the browser (Nothing when it returns early).
Exported ==
    LET d == IF currentFormat = "table" THEN Absent ELSE cache[currentFormat]
    IN  IF d = Absent \/ StartsWithError(d) \/ IncludesNotLoaded(d)
        THEN Nothing
        ELSE d

\* An extension table that gives N-Quads the extension of N-Triples.
extensionsShared ==
    [turtle |-> "ttl", rdfxml |-> "rdf", ntriples |-> "nt", nquads |-> "nt"]

\* const extensions = {...}
extensions ==
    [turtle |-> "ttl", rdfxml |-> "rdf", ntriples |-> "nt", nquads |-> "nq"]

\* The file download() makes the browser save: the `download` attribute of the
\* link and the text of the Blob (NoFile when it returns early).
NoFile == [name |-> "-", text |-> Nothing]

ExportedFile ==
    IF Exported = Nothing
    THEN NoFile
    ELSE [name |-> "export." \o extensions[currentFormat], text |-> Exported]

\* download() reads the cache and the selected format and changes neither: what
\* it produces is Exported, a function of the state it runs in.
download ==
    /\ micro = NoTask
    /\ UNCHANGED vars

\* ---------------------------------------------------------- specification
Next ==
    \/ \E format \in Formats : ShowView(format)
    \/ MicroStep
    \/ \E i \in 1..Len(pending) : NQuadsSettle(i)
    \/ \E url \in Docs : LoadRequest(url)
    \/ \E i \in 1..Len(loads) : LoadSuccess(i)
    \/ \E i \in 1..Len(loads) : LoadFailure(i)
    \/ download

Spec == Init /\ [][Next]_vars

\* The loads and the graph-text view alone, every load request recording the
\* document and the cache it found.
InitHist ==
    /\ rdfLoaded \in BOOLEAN
    /\ jsonldLoaded \in BOOLEAN
    /\ data = NoDoc
    /\ currentFormat = "table"
    /\ cache = EmptyCache
    /\ display = [v \in Formats |-> ""]
    /\ content = [v \in Formats |-> Blank]
    /\ loadDisabled = FALSE
    /\ downloadDisplay = ""
    /\ \E d \in BOOLEAN : toggleDisabled = [f \in DerivedFormats |-> d]
    /\ loads = <<>>
    /\ track = TRUE
    /\ pending = <<>>
    /\ micro = NoTask
    /\ discarded = Absent
    /\ loadedOnce = FALSE
    /\ turtleSinceLoad = FALSE
    /\ ev = Ev("init", "-", "-", FALSE, "none")
    /\ NoTree

NextHist ==
    \/ \E format \in {"table", "turtle"} : ShowView(format)
    \/ MicroStep
    \/ \E url \in Docs : LoadRequest(url)
    \/ \E i \in 1..Len(loads) : LoadSuccess(i)
    \/ \E i \in 1..Len(loads) : LoadFailure(i)

SpecHist == InitHist /\ [][NextHist]_vars

\* A document is Ready and no load is requested any more: the state a first
\* successful load leaves, and from there the format requests alone.  The
\* continuation queued by an await always runs, and every conversion handed
\* to jsonld.toRDF eventually returns or raises.
InitReady ==
    /\ rdfLoaded \in BOOLEAN
    /\ jsonldLoaded \in BOOLEAN
    /\ data \in Docs
    /\ currentFormat = "table"
    /\ cache = EmptyCache
    /\ display = [AllHidden EXCEPT !["table"] = "block"]
    /\ content = [v \in Formats |-> IF v = "table" THEN TableHtml(data) ELSE Blank]
    /\ loadDisabled = FALSE
    /\ downloadDisplay = "none"
    /\ toggleDisabled = [f \in DerivedFormats |->
                            CASE f = "turtle" -> FALSE
                              [] f \in {"rdfxml", "ntriples"} -> ~rdfLoaded
                              [] OTHER -> ~jsonldLoaded]
    /\ loads = <<>>
    /\ track = FALSE
    /\ pending = <<>>
    /\ micro = NoTask
    /\ discarded = Absent
    /\ loadedOnce = TRUE
    /\ turtleSinceLoad = FALSE
    /\ ev = [Ev("loadSuccess", "-", "-", FALSE, "none") EXCEPT
                !.req = [NoRequest EXCEPT !.url = data]]
    /\ NoTree

NextReady ==
    \/ \E format \in Formats : ShowView(format)
    \/ MicroStep
    \/ \E i \in 1..Len(pending) : NQuadsSettle(i)

SpecReady ==
    /\ InitReady
    /\ [][NextReady]_vars
    /\ WF_vars(MicroStep)
    /\ \A i \in 1..MaxInFlight : WF_vars(NQuadsSettle(i))

\* ------------------------------------------------------- one document's way
\* The way of one fetched tree through loadData and generateContent, as
\* trees and strings: the tree is normalized into this.data (line 224) and
\* rendered into the table view (line 227), and
\* this.data is serialized into the graph text (line 306).
Keys == {"name", "homepage", "friends", "@type", "@context", "0", "1"}

Bob == Obj(<< <<"@type", Str("Person")>>, <<"name", Str("Bob")>> >>)

Ann == Obj(<< <<"name", Str("Ann")>>, <<"age", Num(30)>> >>)

Schema == Obj(<< <<"schema", Str("https://schema.org/")>> >>)

\* The values a key of the fetched tree can have.
ValuesOf(key) ==
    CASE key = "name" ->
            {Str("Alice"), Str("say \"hi\""), Str("AT&amp;T"), Num(0), Null}
      [] key = "homepage" ->
            {Str("https://alice.example"), Str(""), Bool(TRUE)}
      [] key = "friends" ->
            {Arr(<<>>), Arr(<<Bob>>), Arr(<<Str("a"), Num(1)>>), Schema,
             Arr(<<Bob, Ann>>), Arr(<<Bob, Str("a")>>), Arr(<<Num(1), Null>>),
             Arr(<<Arr(<<Num(1)>>), Arr(<<Str("a"), Str("b")>>)>>)}
      [] key \in {"0", "1"} ->
            {Str("x")}
      [] OTHER ->
            {Str("Person"), Str(""), Null, Schema}

Values == UNION {ValuesOf(key) : key \in Keys}

\* The orders in which the text of an object of at most MaxKeys keys can name
\* its keys.
KeyOrders ==
    {ks \in UNION {[1..n -> Keys] : n \in 0..MaxKeys} :
        \A i, j \in 1..Len(ks) : (i # j) => ks[i] # ks[j]}

\* The trees response.json() can deliver: the mappings over Keys and Values,
\* each an object created in the order of its text.
Trees ==
    UNION {{ObjectOf([i \in 1..Len(ks) |-> <<ks[i], vs[i]>>]) :
                vs \in {f \in [1..Len(ks) -> Values] :
                           \A i \in 1..Len(ks) : f[i] \in ValuesOf(ks[i])}} :
           ks \in KeyOrders}

InitTree ==
    /\ rdfLoaded = TRUE
    /\ jsonldLoaded = TRUE
    /\ data = NoDoc
    /\ currentFormat = "table"
    /\ cache = EmptyCache
    /\ display = [v \in Formats |-> ""]
    /\ content = [v \in Formats |-> Blank]
    /\ loadDisabled = FALSE
    /\ downloadDisplay = ""
    /\ toggleDisabled = [f \in DerivedFormats |-> FALSE]
    /\ loads = <<>>
    /\ track = FALSE
    /\ pending = <<>>
    /\ micro = NoTask
    /\ discarded = Absent
    /\ loadedOnce = FALSE
    /\ turtleSinceLoad = FALSE
    /\ ev = Ev("init", "-", "-", FALSE, "none")
    /\ fetched \in Trees
    /\ document = Undefined
    /\ graphText = ""
    /\ tableMarkup = ""
    /\ step = "fetched"

\* loadData, lines 224 and 227.
Normalize ==
    /\ step = "fetched"
    /\ document' = normalize(fetched)
    /\ tableMarkup' = renderTable(fetched)
    /\ step' = "normalized"
    /\ UNCHANGED <<controller, fetched, graphText>>

\* generateContent, line 306.
Serialize ==
    /\ step = "normalized"
    /\ graphText' = toTurtle(document)
    /\ step' = "serialized"
    /\ UNCHANGED <<controller, fetched, document, tableMarkup>>

NextTree ==
    \/ Normalize
    \/ Serialize

SpecTree == InitTree /\ [][NextTree]_vars

\* ================================================================= claims

\* C1 (stale-result suppression): when a conversion issued by showView('nquads')
\* settles after the selected format was switched to 'turtle' and the turtle
\* view is shown, the N-Quads text is in the cache under 'nquads' but is not
\* shown: the N-Quads view is not displayed and the turtle view still shows
\* the turtle text.
C1_StaleSuppressed ==
    (/\ ev.op = "settle" /\ ev.who = "showView"
     /\ currentFormat = "turtle" /\ display["turtle"] = "block")
    => /\ cache["nquads"] # Absent
       /\ display["nquads"] # "block"
       /\ content["turtle"] = cache["turtle"]

\* C2: every cache entry was derived from the document that is loaded now (a
\* derivation issued for a replaced document never writes into the cache of
\* the new one).
C2_CacheOfCurrentDocument ==
    \A f \in DerivedFormats :
        cache[f] # Absent => TextDoc(cache[f]) \in {data, "-"}

\* C3: while a conversion of the current document to N-Quads is in flight, no
\* second one is issued for it: at most one conversion issued since the last
\* successful load is in flight.
C3_NoDuplicateDerivation ==
    \A i, j \in 1..Len(pending) :
        (i # j) => (pending[i].stale \/ pending[j].stale)

\* C4, as claimed: while a load is in flight no document is Ready and the
\* cache is empty (entering Loading discards both at once).
C4_LoadingDiscards ==
    Len(loads) > 0 => (data = NoDoc /\ cache = EmptyCache)

\* C4, amended: entering Loading hides every view and the download control
\* and leaves the document and the cache as they are.
C4_LoadingKeeps ==
    [][(ev'.op = "loadRequest")
         => /\ data' = data
            /\ cache' = cache
            /\ display' = AllHidden
            /\ downloadDisplay' = "none"]_vars

C4_Witness ==
    /\ ev.op = "loadRequest"
    /\ data # NoDoc
    /\ cache["turtle"] # Absent

\* C5, as claimed: after a load has failed, the document and the cache are
\* equal to what they were when that load was requested.
C5_AsWhenRequested ==
    (ev.op = "loadFailure")
    => (data = ev.req.data0 /\ cache = ev.req.cache0)

\* C5, amended: the handling of a failed load changes neither the document
\* nor any cache entry.
C5_FailureKeeps ==
    [][(ev'.op = "loadFailure") => (data' = data /\ cache' = cache)]_vars

C5_Witness ==
    /\ ev.op = "loadFailure"
    /\ data # NoDoc
    /\ cache["turtle"] # Absent
    /\ ev.req.data0 = data
    /\ ev.req.cache0 = cache

\* C6, as claimed: after a load has failed no document is Ready and the cache
\* has no entries.
C6_FailureDiscards ==
    (ev.op = "loadFailure") => (data = NoDoc /\ cache = EmptyCache)

\* C6, amended: while the failure message of a failed load stands, a document
\* loaded before is still Ready, the graph text derived from it since it was
\* loaded is still cached, and a format request takes effect.
C6_FailureRetains ==
    (content["table"] = FailedText /\ loadedOnce)
    => /\ data # NoDoc
       /\ (turtleSinceLoad /\ micro = NoTask) => cache["turtle"] = TurtleText(data)
       /\ (ev.op = "showView") => currentFormat = ev.fmt

C6_Witness ==
    /\ content["table"] = FailedText
    /\ loadedOnce
    /\ ev.op = "showView" /\ ev.fmt = "turtle" /\ ev.hit

\* C7: once a failed load has completed and no other load is in flight, the
\* table view holds the failure message and is the one view displayed.
C7_FailureMessageShown ==
    (ev.op = "loadFailure" /\ Len(loads) = 0)
    => /\ content["table"] = FailedText
       /\ display["table"] = "block"
       /\ \A v \in DerivedFormats : display[v] # "block"

\* C8: a successful load leaves the cache empty; a cached graph text is always
\* the text of the document loaded now; and the first showView('turtle') after
\* a successful load computes the graph text of that document anew.
C8_RecomputeAfterLoad ==
    [][/\ (ev'.op = "loadSuccess") => cache' = EmptyCache
       /\ (cache'["turtle"] # Absent) => cache'["turtle"] = TurtleText(data')
       /\ (ev'.op = "showView" /\ ev'.fmt = "turtle" /\ data # NoDoc
             /\ ~turtleSinceLoad)
            => /\ ~ev'.hit
               /\ ev'.derived = "toTurtle"
               /\ micro'.text = TurtleText(data)]_vars

\* The graph text was cached, a load of a document with the same content
\* dropped it, and the next showView('turtle') has computed it again.
C8_Witness ==
    /\ ev.op = "showView" /\ ev.fmt = "turtle"
    /\ ev.derived = "toTurtle"
    /\ discarded = TurtleText(data)

\* C9: a format request that finds a text cached for its format invokes no
\* derivation and shows the cached text at once.
C9_Memoized ==
    (ev.op = "showView" /\ ev.hit)
    => /\ ev.derived = "none"
       /\ content[ev.fmt] = cache[ev.fmt]
       /\ display[ev.fmt] = "block"

\* C10: before the first successful load a format request changes neither the
\* selected format, nor the cache, nor any view, and invokes no derivation.
C10_NoOpBeforeLoad ==
    [][(ev'.op = "showView" /\ data = NoDoc)
         => /\ UNCHANGED <<currentFormat, cache, display, content,
                           downloadDisplay, pending, micro>>
            /\ ev'.derived = "none"]_vars

C10_Witness ==
    /\ ev.op = "showView" /\ ev.fmt = "turtle"
    /\ data = NoDoc

\* C11: export produces the cached text of the selected format in every case
\* except three (no text cached, a text that begins with the error marker, the
\* unavailable-converter message), and nothing in exactly those three: every
\* successfully derived text is exported, whatever words it contains.
C11_ExportsCachedText ==
    (micro = NoTask /\ currentFormat \in DerivedFormats)
    => Exported = IF \/ cache[currentFormat] \in {Absent, Blank}
                     \/ StartsWithError(cache[currentFormat])
                     \/ cache[currentFormat] \in {RdfLibMissing, JsonldMissing}
                  THEN Nothing
                  ELSE cache[currentFormat]

\* C12: when a converter raises, the format's cache entry becomes the text
\* 'Error converting: <message>'; a later request for the format finds it
\* cached, shows it and invokes no converter; export of it produces nothing.
C12_ErrorCached ==
    [][/\ (ev'.op = "resume" /\ StartsWithError(micro.text))
            => cache'[ev'.fmt] = micro.text
       /\ (ev'.op \in {"resume", "settle"} /\ ev'.who = "showView")
            => cache'[ev'.fmt] # Absent
       /\ (ev'.op = "showView" /\ data # NoDoc /\ ev'.fmt \in DerivedFormats
             /\ StartsWithError(cache[ev'.fmt]))
            => /\ ev'.hit
               /\ ev'.derived = "none"
               /\ cache' = cache
               /\ pending' = pending
               /\ micro' = NoTask
               /\ content'[ev'.fmt] = cache[ev'.fmt]
       /\ (micro' = NoTask /\ currentFormat' \in DerivedFormats
             /\ StartsWithError(cache'[currentFormat']))
            => Exported' = Nothing]_vars

\* jsonld.toRDF raised, the error text was cached, and a second request for
\* N-Quads has been served from the cache.
C12_Witness ==
    /\ ev.op = "showView" /\ ev.fmt = "nquads" /\ ev.hit
    /\ cache["nquads"] = ErrorText(data)
    /\ content["nquads"] = ErrorText(data)
    /\ currentFormat = "nquads"
    /\ Exported = Nothing

\* C13: a conversion failure writes the cache entry of its own format only:
\* the document and the entries of the other formats are as before; with an
\* error cached for one format, a request for a format without entry still
\* invokes its derivation, and a text derived for another format is exported.
C13_FailureScoped ==
    [][/\ (ev'.op \in {"resume", "settle"} /\ StartsWithError(cache'[ev'.fmt]))
            => /\ data' = data
               /\ \A g \in DerivedFormats \ {ev'.fmt} : cache'[g] = cache[g]
       /\ (ev'.op = "showView" /\ data # NoDoc /\ ev'.fmt \in DerivedFormats
             /\ cache[ev'.fmt] = Absent
             /\ \E g \in DerivedFormats : StartsWithError(cache[g]))
            => ev'.derived = Derivation(ev'.fmt)
       /\ (micro' = NoTask /\ currentFormat' \in DerivedFormats
             /\ cache'[currentFormat'] = <<currentFormat', "d1">>)
            => Exported' = cache'[currentFormat']]_vars

\* The RDF/XML conversion failed; the graph text cached before it is still
\* there, N-Triples was derived afterwards and is what export produces.
C13_Witness ==
    /\ ev.op = "resume" /\ ev.fmt = "ntriples"
    /\ data = "d1"
    /\ cache["rdfxml"] = ErrorText("d1")
    /\ cache["turtle"] = TurtleText("d1")
    /\ cache["ntriples"] = <<"ntriples", "d1">>
    /\ Exported = <<"ntriples", "d1">>

\* C14: with a converter that was never loaded, a request for one of its
\* formats yields the unavailable-converter message as the format's entry and
\* nothing else, ever; no conversion is issued; the format's toggle is disabled
\* once a load has succeeded; and export of the format produces nothing.
C14_UnavailablePermanent ==
    /\ ~rdfLoaded =>
          \A f \in {"rdfxml", "ntriples"} :
              /\ cache[f] \in {Absent, RdfLibMissing}
              /\ (micro.fmt = f) => micro.text = RdfLibMissing
              /\ loadedOnce => toggleDisabled[f]
              /\ (micro = NoTask /\ currentFormat = f) => Exported = Nothing
    /\ ~jsonldLoaded =>
          /\ cache["nquads"] \in {Absent, JsonldMissing}
          /\ (micro.fmt = "nquads") => micro.text = JsonldMissing
          /\ pending = <<>>
          /\ loadedOnce => toggleDisabled["nquads"]
          /\ (micro = NoTask /\ currentFormat = "nquads") => Exported = Nothing

\* Without rdflib, RDF/XML was requested, the message was cached, and the
\* request was repeated.
C14_Witness ==
    /\ ~rdfLoaded
    /\ ev.op = "showView" /\ ev.fmt = "rdfxml" /\ ev.hit
    /\ cache["rdfxml"] = RdfLibMissing
    /\ content["rdfxml"] = RdfLibMissing
    /\ toggleDisabled["rdfxml"]
    /\ Exported = Nothing

\* C15: an exported file is named export.ttl for turtle, export.rdf for
\* rdfxml, export.nt for ntriples and export.nq for nquads, and holds the
\* cache entry of the selected format; with the table format selected nothing
\* is exported.
C15_ExportFile ==
    micro = NoTask
    => /\ (currentFormat = "table") => ExportedFile = NoFile
       /\ (ExportedFile # NoFile)
            => /\ ExportedFile.text = cache[currentFormat]
               /\ ExportedFile.name =
                     CASE currentFormat = "turtle" -> "export.ttl"
                       [] currentFormat = "rdfxml" -> "export.rdf"
                       [] currentFormat = "ntriples" -> "export.nt"
                       [] currentFormat = "nquads" -> "export.nq"

C15_Witness ==
    /\ micro = NoTask
    /\ currentFormat = "nquads"
    /\ ExportedFile = [name |-> "export.nq", text |-> <<"nquads", "d1">>]

\* C16: for a fetched tree with neither an @context nor an @type key, the
\* normalized document holds every key of the tree with the same value, the
\* two markers @context = {schema: 'https://schema.org/'} and @type =
\* 'Resource', and no other key, and it is semantic.
C16_NormalizeEnvelope ==
    (/\ step \in {"normalized", "serialized"}
     /\ Get(fetched, "@context") = Undefined
     /\ Get(fetched, "@type") = Undefined)
    => /\ \A i \in 1..Len(fetched.entries) :
              Get(document, fetched.entries[i][1]) = fetched.entries[i][2]
       /\ Get(document, "@context")
              = Obj(<< <<"schema", Str("https://schema.org/")>> >>)
       /\ Get(document, "@type") = Str("Resource")
       /\ {document.entries[i][1] : i \in 1..Len(document.entries)}
              = {fetched.entries[i][1] : i \in 1..Len(fetched.entries)} \union {"@context", "@type"}
       /\ Len(document.entries) = Len(fetched.entries) + 2
       /\ isJSONLD(document)

C16_Witness ==
    /\ step = "normalized"
    /\ fetched = Obj(<< <<"name", Str("Alice")>>,
                        <<"homepage", Str("https://alice.example")>> >>)
    /\ document = Obj(<< <<"@context", Obj(<< <<"schema", Str("https://schema.org/")>> >>)>>,
                         <<"@type", Str("Resource")>>,
                         <<"name", Str("Alice")>>,
                         <<"homepage", Str("https://alice.example")>> >>)

\* C17: for a fetched tree with a truthy @context or a truthy @type, the
\* normalized document is the tree itself, no key added, removed or changed;
\* and normalizing a normalized document returns it as it is.
C17_NormalizeIdentity ==
    (step \in {"normalized", "serialized"})
    => /\ (Truthy(Get(fetched, "@context")) \/ Truthy(Get(fetched, "@type")))
            => document = fetched
       /\ normalize(document) = document

C17_Witness ==
    /\ step = "normalized"
    /\ fetched = Obj(<< <<"@type", Str("Person")>>, <<"friends", Arr(<<Bob>>)>> >>)
    /\ document = fetched

\* C18: the tree {"name": "Alice", "homepage": "https://alice.example"} is
\* normalized with @type Resource, and its graph text is, after the prefix
\* declarations, the subject line '<> a schema:Resource ;' followed by the
\* property lines 'schema:name "Alice"' ended by ' ;' and 'schema:homepage
\* <https://alice.example>' ended by ' .', in that order.
C18_AliceGraphText ==
    (/\ step = "serialized"
     /\ fetched = Obj(<< <<"name", Str("Alice")>>,
                         <<"homepage", Str("https://alice.example")>> >>))
    => /\ Get(document, "@type") = Str("Resource")
       /\ graphText = PrefixLines
                         \o "<> a schema:Resource ;\n"
                         \o "  schema:name \"Alice\" ;\n"
                         \o "  schema:homepage <https://alice.example> .\n"

C18_Witness ==
    /\ step = "serialized"
    /\ fetched = Obj(<< <<"name", Str("Alice")>>,
                        <<"homepage", Str("https://alice.example")>> >>)
    /\ Includes(graphText, "<> a schema:Resource ;")

\* C19, as claimed: in the graph text of {"@type": "Person", "friends":
\* [{"@type": "Person", "name": "Bob"}]} the friend is the anonymous node
\* '[', newline, two spaces, 'a schema:Person ;', newline, two spaces,
\* 'schema:name "Bob"', newline, ']'.
C19_FriendNode ==
    (/\ step = "serialized"
     /\ fetched = Obj(<< <<"@type", Str("Person")>>, <<"friends", Arr(<<Bob>>)>> >>))
    => Includes(graphText, "[\n  a schema:Person ;\n  schema:name \"Bob\"\n]")

\* C19, amended: the friend is the anonymous node '[', newline, six spaces,
\* 'a schema:Person ;', newline, six spaces, 'schema:name "Bob"', newline,
\* four spaces, ']': the property line is indented by two spaces, and the
\* sequence and the node each add two.
C19_FriendNodeIndented ==
    (/\ step = "serialized"
     /\ fetched = Obj(<< <<"@type", Str("Person")>>, <<"friends", Arr(<<Bob>>)>> >>))
    => graphText = PrefixLines
                      \o "<> a schema:Person ;\n"
                      \o "  schema:friends [\n"
                      \o "      a schema:Person ;\n"
                      \o "      schema:name \"Bob\"\n"
                      \o "    ] .\n"

C19_Witness ==
    /\ step = "serialized"
    /\ fetched = Obj(<< <<"@type", Str("Person")>>, <<"friends", Arr(<<Bob>>)>> >>)
    /\ Includes(graphText, "schema:name \"Bob\"")

\* C20: a string value is emitted between angle brackets exactly when it
\* begins with http:// or https://, and otherwise between double quotes with
\* every double quote in it preceded by a backslash and nothing else altered.
\* Stated of the documents with one property, whose value is a string: the
\* graph text has the one property line the claim describes.
C20_StringEmitted ==
    (/\ step = "serialized"
     /\ Len(FilterEntries(document.entries, {"@context", "@type"})) = 1
     /\ FilterEntries(document.entries, {"@context", "@type"})[1][2].t = "string")
    => LET key == FilterEntries(document.entries, {"@context", "@type"})[1][1]
           str == FilterEntries(document.entries, {"@context", "@type"})[1][2].s
           type == IF Truthy(Get(document, "@type"))
                   THEN ToText(Get(document, "@type")) ELSE "Resource"
       IN  graphText = PrefixLines \o "<> a schema:" \o type \o " ;\n"
                          \o "  " \o Predicate(key) \o " "
                          \o (IF StartsWith(str, "http://") \/ StartsWith(str, "https://")
                              THEN "<" \o str \o ">"
                              ELSE "\"" \o EscapeQuotes(str) \o "\"")
                          \o " .\n"

\* C21 (as stated): for a fetched tree that is not semantic, one with a falsy
\* @context or @type included, the normalized document lists the two fixed
\* markers first and then the non-marker keys of the tree in the tree's
\* iteration order, and it is semantic.
C21_MarkersFirst ==
    (step \in {"normalized", "serialized"} /\ ~isJSONLD(fetched))
    => /\ document.entries
              = << <<"@context", Obj(<< <<"schema", Str("https://schema.org/")>> >>)>>,
                   <<"@type", Str("Resource")>> >>
                    \o FilterEntries(fetched.entries, {"@context", "@type"})
       /\ isJSONLD(document)

\* C21 (amended): for a fetched tree that is not semantic, one with a falsy
\* @context or @type included, the markers of the normalized document are the
\* fixed values, its non-marker keys are those of the tree with their values
\* in the tree's iteration order, the two markers come before every key that
\* is not an array index (the array-index keys stay first), and the document
\* is semantic.
C21_MarkersFixed ==
    (step \in {"normalized", "serialized"} /\ ~isJSONLD(fetched))
    => /\ Get(document, "@context")
              = Obj(<< <<"schema", Str("https://schema.org/")>> >>)
       /\ Get(document, "@type") = Str("Resource")
       /\ FilterEntries(document.entries, {"@context", "@type"})
              = FilterEntries(fetched.entries, {"@context", "@type"})
       /\ SelectEntries(document.entries, FALSE)
              = << <<"@context", Obj(<< <<"schema", Str("https://schema.org/")>> >>)>>,
                   <<"@type", Str("Resource")>> >>
                    \o SelectEntries(FilterEntries(fetched.entries, {"@context", "@type"}),
                                     FALSE)
       /\ document.entries = SelectEntries(document.entries, TRUE)
                                 \o SelectEntries(document.entries, FALSE)
       /\ isJSONLD(document)

C21_Witness ==
    /\ step = "normalized"
    /\ fetched = Obj(<< <<"1", Str("x")>>, <<"@type", Str("")>> >>)
    /\ document = Obj(<< <<"1", Str("x")>>,
                         <<"@context", Obj(<< <<"schema", Str("https://schema.org/")>> >>)>>,
                         <<"@type", Str("Resource")>> >>)

\* C22: in the graph text, a non-empty sequence that is the value of a key is
\* emitted as a parenthesised collection list exactly when none of its
\* elements is a Mapping (an object that is neither an array nor null), a
\* sequence of primitives and nested sequences included, and as its elements
\* joined by ' ,' and a newline, without parentheses, exactly when at least
\* one element is a Mapping.
C22_CollectionList ==
    (step = "serialized")
    => \A i \in 1..Len(document.entries) :
          LET key == document.entries[i][1]
              value == document.entries[i][2]
              items == [e \in 1..Len(value.items) |-> formatValue(value.items[e], "    ")]
              line(text) ==
                  \E end \in {" ;\n", " .\n"} :
                      Includes(graphText, "\n  " \o Predicate(key) \o " " \o text \o end)
              collection ==
                  \E sep \in {" ", "\n    "} :
                      line("(\n    " \o Join(items, sep) \o "\n  )")
              joined == line(Join(items, " ,\n  "))
              mapping == \E e \in 1..Len(value.items) : value.items[e].t = "object"
          IN  (key \notin {"@context", "@type"} /\ value.t = "array" /\ Len(value.items) > 0)
              => /\ collection <=> ~mapping
                 /\ joined <=> mapping

\* C23: in the graph text, a non-empty sequence with no Mapping element that
\* is the value of a key is emitted as '(', then each formatted element on a
\* line of its own, indented one unit deeper than the sequence, then ')' on a
\* line of its own: n elements give n lines between the parentheses.
C23_ElementLines ==
    (step = "serialized")
    => \A i \in 1..Len(document.entries) :
          LET key == document.entries[i][1]
              value == document.entries[i][2]
              lines == [e \in 1..Len(value.items) |->
                           "    " \o formatValue(value.items[e], "    ")]
          IN  (/\ key \notin {"@context", "@type"}
               /\ value.t = "array"
               /\ Len(value.items) > 0
               /\ \A e \in 1..Len(value.items) : value.items[e].t # "object")
              => \E end \in {" ;\n", " .\n"} :
                    Includes(graphText,
                             "\n  " \o Predicate(key) \o " (\n" \o Join(lines, "\n")
                                 \o "\n  )" \o end)

\* C24 (as stated): after the prefix declarations the graph text has the
\* subject line, which names the document's @type when the document has one
\* (a null counted as none) and 'Resource' otherwise, and then one property
\* line per key of the document other than @context and @type, in the
\* document's key order, each ended by ' ;' and the last one by ' .'.
C24_TypeWhenPresent ==
    (step = "serialized")
    => LET typeName == IF Get(document, "@type").t \notin {"undefined", "null"}
                       THEN ToText(Get(document, "@type")) ELSE "Resource"
           kept == FilterEntries(document.entries, {"@context", "@type"})
           subject == PrefixLines \o "<> a schema:" \o typeName \o " ;\n"
           lines == [i \in 1..Len(kept) |->
                       "  " \o Predicate(kept[i][1]) \o " "
                           \o formatValue(kept[i][2], "  ")
                           \o (IF i = Len(kept) THEN " ." ELSE " ;")]
       IN  /\ StartsWith(graphText, subject)
           /\ (Len(kept) > 0) => graphText = subject \o Join(lines, "\n") \o "\n"

\* C24 (amended): the same subject block, the subject line naming the
\* document's @type when its value is truthy and 'Resource' otherwise (an
\* empty string as @type gives 'Resource' too).
C24_TypeWhenTruthy ==
    (step = "serialized")
    => LET typeName == IF Truthy(Get(document, "@type"))
                       THEN ToText(Get(document, "@type")) ELSE "Resource"
           kept == FilterEntries(document.entries, {"@context", "@type"})
           subject == PrefixLines \o "<> a schema:" \o typeName \o " ;\n"
           lines == [i \in 1..Len(kept) |->
                       "  " \o Predicate(kept[i][1]) \o " "
                           \o formatValue(kept[i][2], "  ")
                           \o (IF i = Len(kept) THEN " ." ELSE " ;")]
       IN  /\ StartsWith(graphText, subject)
           /\ (Len(kept) > 0) => graphText = subject \o Join(lines, "\n") \o "\n"

C24_Witness ==
    /\ step = "serialized"
    /\ document = Obj(<< <<"@context", Schema>>, <<"@type", Str("")>> >>)
    /\ StartsWith(graphText, PrefixLines \o "<> a schema:Resource ;\n")

\* C25: every value of a key of the fetched tree is rendered into its table
\* cell by its category: a primitive as its text, an empty sequence as the
\* empty-state marker, a sequence of primitives as a list, a non-empty
\* sequence as a table with a column header only when every element is a
\* Mapping (a non-null object that is not an array), any other non-empty
\* sequence (a sequence of sequences, one holding null) as a pretty-printed
\* text dump, a Mapping as a table without header, and null as nothing.
C25_Classified ==
    (step \in {"normalized", "serialized"})
    => \A i \in 1..Len(fetched.entries) :
          LET val == fetched.entries[i][2]
              cell == "<tr><td>" \o fetched.entries[i][1] \o "</td><td>"
              all(test(_)) == \A e \in 1..Len(val.items) : test(val.items[e])
              Primitive(v) == v.t \in {"string", "number", "boolean"}
              Mapping(v) == v.t = "object"
              shown ==
                  CASE Primitive(val) -> linkify(Str(DecodeText(ToText(val)))) \o "</td></tr>"
                    [] val.t = "array" /\ Len(val.items) = 0 -> "<i>(empty)</i></td></tr>"
                    [] val.t = "array" /\ all(Primitive) -> "<ul><li>"
                    [] val.t = "array" /\ all(Mapping) ->
                          "<table class=\"json-sub-table\"><thead><tr><th>"
                    [] val.t = "array" -> "<pre>[\n"
                    [] Mapping(val) -> "<table class=\"json-sub-table\"><tbody>"
                    [] OTHER -> "</td></tr>"
          IN  Includes(tableMarkup, cell \o shown)

\* C26: at most one view is displayed, and when a document is loaded and no
\* load is in flight a displayed view is the view of the selected format.
C26_OneViewShown ==
    /\ Cardinality({v \in Formats : display[v] = "block"}) <= 1
    /\ (data # NoDoc /\ loads = <<>>)
       => \A v \in Formats : (display[v] = "block") => v = currentFormat

\* C27: a load that succeeds after a load requested later than it has
\* succeeded does not replace that load's document: when a load has just
\* succeeded, the current document is the one of the most recently requested
\* of the loads that have succeeded.
C27_NewestWins ==
    (ev.op = "loadSuccess" /\ ev.req.overtakenBy # NoDoc)
    => data = ev.req.overtakenBy

\* C28: the load control is disabled exactly while a load is in flight.
C28_DisabledWhileLoading == loadDisabled <=> (loads # <<>>)

\* C29: with a document Ready and no load requested, a request for a derived
\* format f leads to a cache entry for f that holds a text (the derived text
\* or an error string), and whenever a text is put into the entry of the
\* format that is selected then, that text is what the view of f displays.
C29_DerivedAndShown ==
    /\ \A f \in DerivedFormats :
          (ev.op = "showView" /\ ev.fmt = f) ~> (cache[f] # Absent)
    /\ [][\A f \in DerivedFormats :
             (cache'[f] # cache[f] /\ cache'[f] # Absent /\ currentFormat' = f)
             => (display'[f] = "block" /\ content'[f] = cache'[f])]_vars

====
